---- MODULE Spec2Model ----
(***************************************************************************)
(* The file-backed credential store of mocklibsecret/secret.c: the four    *)
(* libsecret entry points (store, lookup, clear, search) and the library   *)
(* constructor, over $HOME/passwords.ini, a GKeyFile.                      *)
(*                                                                         *)
(* A C string is a sequence of one-character strings; the key file on disk *)
(* is a sequence of lines, a "[group]" header or a "key=value" pair with   *)
(* the value in its escaped form.  Service and account names are valid key *)
(* file group and key names.                                               *)
(*                                                                         *)
(* Spec: one call after another, HOME set, no file system failure apart    *)
(* from the constructor's unchecked g_open.  SpecFault: one call after     *)
(* another, each in an environment where HOME may be unset and the load or *)
(* the save may fail.  SpecConc: two callers whose calls interleave at the *)
(* file system calls.                                                      *)
(***************************************************************************)
EXTENDS Naturals, Sequences, FiniteSets

VARIABLES
  passwords_ini,  \* $HOME/passwords.ini: whether it exists, and its lines
  last,           \* the last call: arguments, outcome, the file before it
  io,             \* the environment of the last call and its file system calls
  callers         \* SpecConc: where each caller stands in its call

vars == <<passwords_ini, last, io, callers>>

\* ------------------------------------------------------------------ bounds

\* How many of the pool's secrets the calls draw from.
NumPasswords == 2

\* A plain secret, one whose escaped form differs from it (a leading blank
\* and a backslash), and the empty secret.
PasswordPool == << <<"p", "w">>, <<" ", "\\">>, <<>> >>

Passwords == {PasswordPool[i] : i \in 1..NumPasswords}

Services == {"svc", "other"}

Accounts == {"alice", "bob"}

\* ---------------------------------------------------------------- C values

\* The null pointer: a value that no modelled string, array or list equals.
NULL == <<"NULL">>

NoError == ""

G_FILE_ERROR_NOENT == "G_FILE_ERROR_NOENT"

G_KEY_FILE_ERROR_PARSE == "G_KEY_FILE_ERROR_PARSE"

G_KEY_FILE_ERROR_KEY_NOT_FOUND == "G_KEY_FILE_ERROR_KEY_NOT_FOUND"

G_KEY_FILE_ERROR_GROUP_NOT_FOUND == "G_KEY_FILE_ERROR_GROUP_NOT_FOUND"

G_KEY_FILE_ERROR_INVALID_VALUE == "G_KEY_FILE_ERROR_INVALID_VALUE"

\* ------------------------------------------------------- GKeyFile: values

\* g_key_file_set_string keeps the escaped form of a string: leading blanks
\* become "\s", a backslash is doubled.
RECURSIVE escape_from(_, _, _)
escape_from(string, i, parsing_leading_space) ==
  IF i > Len(string) THEN <<>>
  ELSE IF parsing_leading_space /\ string[i] = " "
       THEN <<"\\", "s">> \o escape_from(string, i + 1, TRUE)
  ELSE IF string[i] = "\\"
       THEN <<"\\", "\\">> \o escape_from(string, i + 1, FALSE)
  ELSE <<string[i]>> \o escape_from(string, i + 1, FALSE)

\* Faulty variant: the string is kept as it is given, unescaped.
parse_string_as_value_verbatim(string) == string

g_key_file_parse_string_as_value(string) == escape_from(string, 1, TRUE)

\* g_key_file_get_string undoes the escapes; an escape it does not know is
\* kept as written and reported as G_KEY_FILE_ERROR_INVALID_VALUE.
RECURSIVE g_key_file_parse_value_as_string(_)
g_key_file_parse_value_as_string(value) ==
  IF value = <<>> THEN [string |-> <<>>, error |-> NoError]
  ELSE IF Head(value) # "\\"
       THEN LET rest == g_key_file_parse_value_as_string(Tail(value))
            IN  [string |-> <<Head(value)>> \o rest.string, error |-> rest.error]
  ELSE IF Len(value) = 1
       THEN [string |-> <<>>, error |-> G_KEY_FILE_ERROR_INVALID_VALUE]
  ELSE LET rest == g_key_file_parse_value_as_string(Tail(Tail(value)))
           c    == value[2]
       IN  IF c = "s" THEN [string |-> <<" ">> \o rest.string, error |-> rest.error]
           ELSE IF c = "\\" THEN [string |-> <<"\\">> \o rest.string, error |-> rest.error]
           ELSE [string |-> <<"\\", c>> \o rest.string,
                 error  |-> G_KEY_FILE_ERROR_INVALID_VALUE]

\* ------------------------------------------------- GKeyFile: groups, keys

\* A GKeyFile is the sequence of its groups in file order, each
\* [name, pairs], pairs the sequence of its [key, value] in file order.
g_key_file_new == <<>>

HasGroup(key_file, group_name) == \E i \in 1..Len(key_file) : key_file[i].name = group_name

GroupOf(key_file, group_name) ==
  key_file[CHOOSE i \in 1..Len(key_file) : key_file[i].name = group_name]

HasKey(group, key) == \E j \in 1..Len(group.pairs) : group.pairs[j].key = key

\* Faulty variant: the pair is added after the last even when the key is there.
SetPair_always_appends(pairs, key, value) ==
  Append(pairs, [key |-> key, value |-> value])

\* The group's pairs with `key` set to `value`: in place when the key is
\* there, else after the last pair.
SetPair(pairs, key, value) ==
  IF \E j \in 1..Len(pairs) : pairs[j].key = key
  THEN [j \in 1..Len(pairs) |->
          IF pairs[j].key = key THEN [key |-> key, value |-> value] ELSE pairs[j]]
  ELSE Append(pairs, [key |-> key, value |-> value])

\* Faulty variant: a group that is not there replaces the groups that are.
set_value_new_group_alone(key_file, group_name, key, value) ==
  IF HasGroup(key_file, group_name)
  THEN [i \in 1..Len(key_file) |->
          IF key_file[i].name = group_name
          THEN [name |-> group_name,
                pairs |-> [j \in 1..Len(key_file[i].pairs) |->
                             IF key_file[i].pairs[j].key = key
                             THEN [key |-> key, value |-> value]
                             ELSE key_file[i].pairs[j]]]
          ELSE key_file[i]]
  ELSE <<[name |-> group_name, pairs |-> <<[key |-> key, value |-> value]>>]>>

\* g_key_file_set_value: a group that is not there is added after the last.
g_key_file_set_value(key_file, group_name, key, value) ==
  IF HasGroup(key_file, group_name)
  THEN [i \in 1..Len(key_file) |->
          IF key_file[i].name = group_name
          THEN [name |-> group_name, pairs |-> SetPair(key_file[i].pairs, key, value)]
          ELSE key_file[i]]
  ELSE Append(key_file, [name  |-> group_name,
                         pairs |-> <<[key |-> key, value |-> value]>>])

g_key_file_set_string(key_file, group_name, key, string) ==
  g_key_file_set_value(key_file, group_name, key,
                       g_key_file_parse_string_as_value(string))

\* Faulty variant: the key is looked up in the first group that holds it, whatever
\* the group's name.
get_string_in_any_group(key_file, group_name, key) ==
  LET holders == {i \in 1..Len(key_file) :
                    \E j \in 1..Len(key_file[i].pairs) : key_file[i].pairs[j].key = key}
  IN  IF holders = {}
      THEN [retval |-> NULL, error |-> G_KEY_FILE_ERROR_KEY_NOT_FOUND]
      ELSE LET pairs == key_file[CHOOSE i \in holders : \A h \in holders : i <= h].pairs
               value == pairs[CHOOSE j \in 1..Len(pairs) : pairs[j].key = key].value
           IN  [retval |-> value, error |-> NoError]

\* g_key_file_get_string: [retval, error].
g_key_file_get_string(key_file, group_name, key) ==
  IF ~HasGroup(key_file, group_name)
  THEN [retval |-> NULL, error |-> G_KEY_FILE_ERROR_GROUP_NOT_FOUND]
  ELSE LET group == GroupOf(key_file, group_name) IN
       IF ~HasKey(group, key)
       THEN [retval |-> NULL, error |-> G_KEY_FILE_ERROR_KEY_NOT_FOUND]
       ELSE LET pair == group.pairs[CHOOSE j \in 1..Len(group.pairs) :
                                      group.pairs[j].key = key]
                s    == g_key_file_parse_value_as_string(pair.value)
            IN  [retval |-> s.string, error |-> s.error]

\* The pairs without the one of `key`.
RemovePair(pairs, key) == SelectSeq(pairs, LAMBDA p : p.key # key)

\* Faulty variant: removing a key removes its whole group.
remove_key_with_group(key_file, group_name, key) ==
  IF ~HasGroup(key_file, group_name)
  THEN [retval |-> FALSE, key_file |-> key_file,
        error |-> G_KEY_FILE_ERROR_GROUP_NOT_FOUND]
  ELSE IF ~HasKey(GroupOf(key_file, group_name), key)
  THEN [retval |-> FALSE, key_file |-> key_file,
        error |-> G_KEY_FILE_ERROR_KEY_NOT_FOUND]
  ELSE [retval   |-> TRUE,
        key_file |-> SelectSeq(key_file, LAMBDA g : g.name # group_name),
        error    |-> NoError]

\* g_key_file_remove_key: [retval, key_file, error]; the group stays, even
\* when its last key goes.
g_key_file_remove_key(key_file, group_name, key) ==
  IF ~HasGroup(key_file, group_name)
  THEN [retval |-> FALSE, key_file |-> key_file,
        error |-> G_KEY_FILE_ERROR_GROUP_NOT_FOUND]
  ELSE IF ~HasKey(GroupOf(key_file, group_name), key)
  THEN [retval |-> FALSE, key_file |-> key_file,
        error |-> G_KEY_FILE_ERROR_KEY_NOT_FOUND]
  ELSE [retval   |-> TRUE,
        key_file |-> [i \in 1..Len(key_file) |->
                        IF key_file[i].name = group_name
                        THEN [name  |-> group_name,
                              pairs |-> RemovePair(key_file[i].pairs, key)]
                        ELSE key_file[i]],
        error    |-> NoError]

\* Faulty variant: the group's last key is left out.
get_keys_but_last(key_file, group_name) ==
  IF ~HasGroup(key_file, group_name)
  THEN [keys |-> NULL, length |-> 0, error |-> G_KEY_FILE_ERROR_GROUP_NOT_FOUND]
  ELSE LET pairs == GroupOf(key_file, group_name).pairs
           n     == IF Len(pairs) = 0 THEN 0 ELSE Len(pairs) - 1
       IN  [keys |-> [j \in 1..n |-> pairs[j].key], length |-> n, error |-> NoError]

\* g_key_file_get_keys: [keys, length, error]; keys is NULL for a group that
\* is not there and an empty array for a group without keys.
g_key_file_get_keys(key_file, group_name) ==
  IF ~HasGroup(key_file, group_name)
  THEN [keys |-> NULL, length |-> 0, error |-> G_KEY_FILE_ERROR_GROUP_NOT_FOUND]
  ELSE LET pairs == GroupOf(key_file, group_name).pairs
       IN  [keys   |-> [j \in 1..Len(pairs) |-> pairs[j].key],
            length |-> Len(pairs),
            error  |-> NoError]

\* ------------------------------------------------ GKeyFile: file content

GroupLine(group) == [kind |-> "group", name |-> group.name, value |-> <<>>]

PairLine(pair) == [kind |-> "pair", name |-> pair.key, value |-> pair.value]

\* g_key_file_to_data: each group's "[name]" line, then its "key=value"
\* lines (the blank lines between groups are left out).
RECURSIVE g_key_file_to_data(_)
g_key_file_to_data(key_file) ==
  IF key_file = <<>> THEN <<>>
  ELSE LET group == Head(key_file) IN
       <<GroupLine(group)>>
         \o [j \in 1..Len(group.pairs) |-> PairLine(group.pairs[j])]
         \o g_key_file_to_data(Tail(key_file))

\* The value of a "key=value" line starts after the blanks that follow '='.
RECURSIVE chug(_)
chug(value) ==
  IF value # <<>> /\ Head(value) = " " THEN chug(Tail(value)) ELSE value

\* g_key_file_parse_data from line i on: [retval, key_file, error].  A pair
\* before the first group is an error; a group named again is continued.
RECURSIVE parse_lines(_, _, _, _)
parse_lines(lines, i, key_file, current_group) ==
  IF i > Len(lines)
  THEN [retval |-> TRUE, key_file |-> key_file, error |-> NoError]
  ELSE IF lines[i].kind = "group"
  THEN parse_lines(lines, i + 1,
                   IF HasGroup(key_file, lines[i].name) THEN key_file
                   ELSE Append(key_file, [name |-> lines[i].name, pairs |-> <<>>]),
                   lines[i].name)
  ELSE IF current_group = ""
  THEN [retval |-> FALSE, key_file |-> key_file, error |-> G_KEY_FILE_ERROR_GROUP_NOT_FOUND]
  ELSE parse_lines(lines, i + 1,
                   g_key_file_set_value(key_file, current_group, lines[i].name,
                                        chug(lines[i].value)),
                   current_group)

\* The credential file: whether it exists, and its lines.
NoFile == [exists |-> FALSE, data |-> <<>>]

EmptyFile == [exists |-> TRUE, data |-> <<>>]

\* Faulty variant: a file that is not there loads as an empty key file.
load_from_file_absent_is_empty(file) ==
  IF ~file.exists
  THEN [retval |-> TRUE, key_file |-> <<>>, error |-> NoError]
  ELSE parse_lines(file.data, 1, <<>>, "")

\* g_key_file_load_from_file(key_file, ini_path, ...): [retval, key_file, error].
g_key_file_load_from_file(file) ==
  IF ~file.exists
  THEN [retval |-> FALSE, key_file |-> g_key_file_new, error |-> G_FILE_ERROR_NOENT]
  ELSE parse_lines(file.data, 1, g_key_file_new, "")

\* g_key_file_save_to_file(key_file, ini_path, error): the file it leaves.
g_key_file_save_to_file(key_file) ==
  [exists |-> TRUE, data |-> g_key_file_to_data(key_file)]

\* ----------------------------------------------------------- secret.c

\* open_ini_file: [retval, key_file, error, warned]; a missing file is not
\* warned about.
open_ini_file(file) ==
  LET loaded == g_key_file_load_from_file(file) IN
  [retval   |-> loaded.retval,
   key_file |-> loaded.key_file,
   error    |-> loaded.error,
   warned   |-> ~loaded.retval /\ loaded.error # G_FILE_ERROR_NOENT]

\* Every entry point's outcome: what it returns, *error, whether it called
\* g_warning, whether it called g_key_file_save_to_file, the file it leaves.
Outcome(retval, error, warned, saved, file) ==
  [retval |-> retval, error |-> error, warned |-> warned, saved |-> saved,
   file |-> file]

secret_password_store_sync(file, service, account, password) ==
  LET loaded == g_key_file_load_from_file(file) IN
  IF ~loaded.retval
  THEN Outcome(FALSE, loaded.error, loaded.error # G_FILE_ERROR_NOENT, FALSE, file)
  ELSE Outcome(TRUE, NoError, FALSE, TRUE,
               g_key_file_save_to_file(
                 g_key_file_set_string(loaded.key_file, service, account, password)))

secret_password_lookup_sync(file, service, account) ==
  LET opened == open_ini_file(file) IN
  IF ~opened.retval
  THEN Outcome(NULL, opened.error, opened.warned, FALSE, file)
  ELSE LET got == g_key_file_get_string(opened.key_file, service, account) IN
       IF got.retval = NULL /\ got.error # G_KEY_FILE_ERROR_KEY_NOT_FOUND
       THEN Outcome(NULL, got.error, TRUE, FALSE, file)
       ELSE Outcome(got.retval, got.error, FALSE, FALSE, file)

\* Faulty variant: the key file is saved even when the key was not there.
clear_sync_saves_anyway(file, service, account) ==
  LET opened == open_ini_file(file) IN
  IF ~opened.retval
  THEN Outcome(FALSE, opened.error, opened.warned, FALSE, file)
  ELSE LET removed == g_key_file_remove_key(opened.key_file, service, account) IN
       Outcome(removed.retval, removed.error,
               removed.error = G_KEY_FILE_ERROR_KEY_NOT_FOUND, TRUE,
               g_key_file_save_to_file(removed.key_file))

secret_password_clear_sync(file, service, account) ==
  LET opened == open_ini_file(file) IN
  IF ~opened.retval
  THEN Outcome(FALSE, opened.error, opened.warned, FALSE, file)
  ELSE LET removed == g_key_file_remove_key(opened.key_file, service, account) IN
       IF ~removed.retval
       THEN Outcome(FALSE, removed.error,
                    removed.error = G_KEY_FILE_ERROR_KEY_NOT_FOUND, FALSE, file)
       ELSE Outcome(TRUE, NoError, FALSE, TRUE,
                    g_key_file_save_to_file(removed.key_file))

\* Faulty variant: the error of a group that is not there is left in *error.
search_sync_keeps_error(file, service_name) ==
  LET opened == open_ini_file(file) IN
  IF ~opened.retval
  THEN Outcome(<<>>, opened.error, opened.warned, FALSE, file)
  ELSE LET found == g_key_file_get_keys(opened.key_file, service_name) IN
       IF found.keys = NULL
       THEN Outcome(<<>>, found.error, FALSE, FALSE, file)
       ELSE Outcome([i \in 1..found.length |->
                       [account  |-> found.keys[i],
                        password |-> g_key_file_get_string(opened.key_file, service_name,
                                                           found.keys[i]).retval]],
                    NoError, FALSE, FALSE, file)

\* The GList of secret items; the empty GList is the null pointer.
secret_service_search_sync(file, service_name) ==
  LET opened == open_ini_file(file) IN
  IF ~opened.retval
  THEN Outcome(<<>>, opened.error, opened.warned, FALSE, file)
  ELSE LET found == g_key_file_get_keys(opened.key_file, service_name) IN
       IF found.keys = NULL /\ found.error = G_KEY_FILE_ERROR_GROUP_NOT_FOUND
       THEN Outcome(<<>>, NoError, FALSE, FALSE, file)
       ELSE LET item(i) ==
                  g_key_file_get_string(opened.key_file, service_name, found.keys[i])
                bad == {i \in 1..found.length : item(i).error # NoError}
            IN  Outcome([i \in 1..found.length |->
                           [account |-> found.keys[i], password |-> item(i).retval]],
                        IF bad = {} THEN NoError
                        ELSE item(CHOOSE i \in bad : TRUE).error,
                        FALSE, FALSE, file)

\* Faulty variant: g_open truncates the file (O_CREAT | O_TRUNC).
init_truncates(file, created) ==
  IF file.exists \/ created THEN EmptyFile ELSE NoFile

\* The constructor: g_open(ini_path, O_CREAT, ...) with its result unchecked.
\* `created` is whether g_open could create a file that was not there.
init(file, created) ==
  IF file.exists THEN file ELSE IF created THEN EmptyFile ELSE NoFile

\* ------------------------------------------------------------- the calls

\* The last call: its arguments, its outcome, the file before it, and
\* whether it repeats the call before it.
Call(op, service, account, password, out) ==
  [op |-> op, service |-> service, account |-> account, password |-> password,
   retval |-> out.retval, error |-> out.error, warned |-> out.warned,
   saved |-> out.saved, before |-> passwords_ini,
   repeat |-> /\ last.op = op
              /\ last.service = service
              /\ last.account = account
              /\ last.password = password]

\* An environment: whether HOME is set, the error the load and the save end
\* with (NoError: none), and what reading an uninitialized ini_path does.
Environment(home, load_error, save_error, ub) ==
  [home |-> home, load_error |-> load_error, save_error |-> save_error, ub |-> ub]

FineEnvironment == Environment(TRUE, NoError, NoError, "returns")

\* The environment of a call with the number of g_key_file_load_from_file
\* and g_key_file_save_to_file calls it made.
IoOf(env, loads, saves) ==
  [home |-> env.home, load_error |-> env.load_error,
   save_error |-> env.save_error, ub |-> env.ub, loads |-> loads, saves |-> saves]

Callers == {"c1", "c2"}

Idle ==
  [pc |-> "idle", op |-> "", service |-> "", account |-> "", password |-> <<>>,
   snapshot |-> NoFile, target |-> NoFile, tmp |-> <<>>,
   retval |-> FALSE, error |-> NoError, latest |-> FALSE, calls |-> 0]

Init ==
  /\ passwords_ini = NoFile
  /\ last = [op |-> "start", service |-> "", account |-> "", password |-> <<>>,
             retval |-> FALSE, error |-> NoError, warned |-> FALSE,
             saved |-> FALSE, before |-> NoFile, repeat |-> FALSE]
  /\ io = IoOf(FineEnvironment, 0, 0)
  /\ callers = [c \in Callers |-> Idle]

\* A process loads the library: the constructor runs before any call.
Load ==
  \E created \in BOOLEAN :
    /\ passwords_ini' = init(passwords_ini, created)
    /\ last' = Call("init", "", "", <<>>,
                    Outcome(created, NoError, FALSE, FALSE, passwords_ini))

Store ==
  \E service \in Services, account \in Accounts, password \in Passwords :
    LET out == secret_password_store_sync(passwords_ini, service, account, password) IN
    /\ last.op # "start"
    /\ passwords_ini' = out.file
    /\ last' = Call("store", service, account, password, out)

Lookup ==
  \E service \in Services, account \in Accounts :
    LET out == secret_password_lookup_sync(passwords_ini, service, account) IN
    /\ last.op # "start"
    /\ passwords_ini' = out.file
    /\ last' = Call("lookup", service, account, <<>>, out)

Clear ==
  \E service \in Services, account \in Accounts :
    LET out == secret_password_clear_sync(passwords_ini, service, account) IN
    /\ last.op # "start"
    /\ passwords_ini' = out.file
    /\ last' = Call("clear", service, account, <<>>, out)

Search ==
  \E service \in Services :
    LET out == secret_service_search_sync(passwords_ini, service) IN
    /\ last.op # "start"
    /\ passwords_ini' = out.file
    /\ last' = Call("search", service, "", <<>>, out)

Next ==
  \/ Load /\ UNCHANGED <<io, callers>>
  \/ Store /\ UNCHANGED <<io, callers>>
  \/ Lookup /\ UNCHANGED <<io, callers>>
  \/ Clear /\ UNCHANGED <<io, callers>>
  \/ Search /\ UNCHANGED <<io, callers>>

Spec == Init /\ [][Next]_vars

\* ------------------------------------------------- calls under failures

\* The error of the library itself: g_error_new(quark, 0, ...).
MOCKLIBSECRET_ERROR == "MOCKLIBSECRET_ERROR"

G_FILE_ERROR_ACCES == "G_FILE_ERROR_ACCES"

G_FILE_ERROR_NOSPC == "G_FILE_ERROR_NOSPC"

\* The process ends on a bad pointer: the call does not return.
SIGSEGV == "SIGSEGV"

\* The environments a call may run in: nothing fails; the file cannot be
\* read; its content cannot be parsed; the save fails; HOME is not set, and
\* a use of the uninitialized ini_path returns or ends the process.
Environments ==
  { FineEnvironment,
    Environment(TRUE, G_FILE_ERROR_ACCES, NoError, "returns"),
    Environment(TRUE, G_KEY_FILE_ERROR_PARSE, NoError, "returns"),
    Environment(TRUE, NoError, G_FILE_ERROR_NOSPC, "returns"),
    Environment(FALSE, NoError, NoError, "returns"),
    Environment(FALSE, NoError, NoError, "crashes") }

\* get_ini_location: [retval, error].
get_ini_location(env) ==
  IF env.home THEN [retval |-> TRUE, error |-> NoError]
  ELSE [retval |-> FALSE, error |-> MOCKLIBSECRET_ERROR]

\* g_key_file_load_from_file where the load may fail: a file that cannot be
\* opened, or a file that is there and cannot be parsed.
load_from_file_in(env, file) ==
  IF env.load_error = G_FILE_ERROR_ACCES
     \/ (env.load_error # NoError /\ file.exists)
  THEN [retval |-> FALSE, key_file |-> g_key_file_new, error |-> env.load_error]
  ELSE g_key_file_load_from_file(file)

\* Faulty variant: a failed save leaves the file truncated.
failed_save_truncates(file) == EmptyFile

\* The file after a g_key_file_save_to_file that failed: the new content goes
\* to a temporary file that replaces the old one only when it is complete.
failed_save_leaves(file) == file

\* g_key_file_save_to_file where the save may fail: [retval, error, file].
save_to_file_in(env, key_file, file) ==
  IF env.save_error # NoError
  THEN [retval |-> FALSE, error |-> env.save_error, file |-> failed_save_leaves(file)]
  ELSE [retval |-> TRUE, error |-> NoError, file |-> g_key_file_save_to_file(key_file)]

\* open_ini_file: [retval, key_file, error, warned, crashed].  The result of
\* get_ini_location is not looked at: without HOME the load is called with
\* an uninitialized ini_path, and either ends the process or fails, *error
\* staying the one get_ini_location has set.
open_ini_file_in(env, file) ==
  LET located == get_ini_location(env) IN
  IF ~located.retval
  THEN [retval |-> FALSE, key_file |-> g_key_file_new, error |-> located.error,
        warned |-> env.ub # "crashes", crashed |-> env.ub = "crashes"]
  ELSE LET loaded == load_from_file_in(env, file) IN
       [retval   |-> loaded.retval,
        key_file |-> loaded.key_file,
        error    |-> loaded.error,
        warned   |-> ~loaded.retval /\ loaded.error # G_FILE_ERROR_NOENT,
        crashed  |-> FALSE]

\* An entry point's outcome with the number of loads and saves it called.
OutcomeIn(retval, error, warned, loads, saves, file) ==
  [retval |-> retval, error |-> error, warned |-> warned, saved |-> saves > 0,
   loads |-> loads, saves |-> saves, file |-> file]

\* A return that leaves the scope of a g_autofree ini_path nothing was
\* assigned to: g_free of the uninitialized pointer returns or ends the
\* process.
unset_path_freed(env, out) ==
  IF env.ub = "crashes"
  THEN OutcomeIn(out.retval, SIGSEGV, FALSE, out.loads, out.saves, out.file)
  ELSE out

\* Faulty variant: the result of the save is not looked at.
store_sync_ignores_save(env, file, service, account, password) ==
  LET located == get_ini_location(env) IN
  IF ~located.retval
  THEN unset_path_freed(env, OutcomeIn(FALSE, located.error, FALSE, 0, 0, file))
  ELSE LET loaded == load_from_file_in(env, file) IN
       IF ~loaded.retval
       THEN OutcomeIn(FALSE, loaded.error, loaded.error # G_FILE_ERROR_NOENT, 1, 0, file)
       ELSE OutcomeIn(TRUE, NoError, FALSE, 1, 1,
                      save_to_file_in(env,
                        g_key_file_set_string(loaded.key_file, service, account, password),
                        file).file)

\* secret_password_store_sync in environment `env`.
store_sync_in(env, file, service, account, password) ==
  LET located == get_ini_location(env) IN
  IF ~located.retval
  THEN unset_path_freed(env, OutcomeIn(FALSE, located.error, FALSE, 0, 0, file))
  ELSE LET loaded == load_from_file_in(env, file) IN
       IF ~loaded.retval
       THEN OutcomeIn(FALSE, loaded.error, loaded.error # G_FILE_ERROR_NOENT, 1, 0, file)
       ELSE LET saved == save_to_file_in(env,
                           g_key_file_set_string(loaded.key_file, service, account, password),
                           file)
            IN  IF ~saved.retval
                THEN OutcomeIn(FALSE, saved.error, TRUE, 1, 1, saved.file)
                ELSE OutcomeIn(TRUE, NoError, FALSE, 1, 1, saved.file)

\* Faulty variant: a file that is not there is created by the lookup.
lookup_sync_creates_file(env, file, service, account) ==
  LET located == get_ini_location(env) IN
  IF ~located.retval
  THEN unset_path_freed(env, OutcomeIn(NULL, located.error, FALSE, 0, 0, file))
  ELSE LET opened == open_ini_file_in(env, file) IN
       IF ~opened.retval
       THEN OutcomeIn(NULL, opened.error, opened.warned, 1, 0,
                      IF file.exists THEN file ELSE EmptyFile)
       ELSE LET got == g_key_file_get_string(opened.key_file, service, account) IN
            OutcomeIn(got.retval, got.error, FALSE, 1, 0, file)

\* secret_password_lookup_sync in environment `env`.
lookup_sync_in(env, file, service, account) ==
  LET located == get_ini_location(env) IN
  IF ~located.retval
  THEN unset_path_freed(env, OutcomeIn(NULL, located.error, FALSE, 0, 0, file))
  ELSE LET opened == open_ini_file_in(env, file) IN
       IF ~opened.retval
       THEN OutcomeIn(NULL, opened.error, opened.warned, 1, 0, file)
       ELSE LET got == g_key_file_get_string(opened.key_file, service, account) IN
            IF got.retval = NULL /\ got.error # G_KEY_FILE_ERROR_KEY_NOT_FOUND
            THEN OutcomeIn(NULL, got.error, TRUE, 1, 0, file)
            ELSE OutcomeIn(got.retval, got.error, FALSE, 1, 0, file)

\* secret_password_clear_sync in environment `env`.
clear_sync_in(env, file, service, account) ==
  LET opened == open_ini_file_in(env, file) IN
  IF opened.crashed
  THEN OutcomeIn(FALSE, SIGSEGV, FALSE, 1, 0, file)
  ELSE IF ~opened.retval
  THEN OutcomeIn(FALSE, opened.error, opened.warned, 1, 0, file)
  ELSE LET removed == g_key_file_remove_key(opened.key_file, service, account) IN
       IF ~removed.retval
       THEN OutcomeIn(FALSE, removed.error,
                      removed.error = G_KEY_FILE_ERROR_KEY_NOT_FOUND, 1, 0, file)
       ELSE LET located == get_ini_location(env) IN
            IF ~located.retval
            THEN unset_path_freed(env, OutcomeIn(FALSE, located.error, FALSE, 1, 0, file))
            ELSE LET saved == save_to_file_in(env, removed.key_file, file) IN
                 IF ~saved.retval
                 THEN OutcomeIn(FALSE, saved.error, TRUE, 1, 1, saved.file)
                 ELSE OutcomeIn(TRUE, NoError, FALSE, 1, 1, saved.file)

\* secret_service_search_sync in environment `env`.
search_sync_in(env, file, service_name) ==
  LET opened == open_ini_file_in(env, file) IN
  IF opened.crashed
  THEN OutcomeIn(<<>>, SIGSEGV, FALSE, 1, 0, file)
  ELSE IF ~opened.retval
  THEN OutcomeIn(<<>>, opened.error, opened.warned, 1, 0, file)
  ELSE LET out == secret_service_search_sync(file, service_name)
       IN  OutcomeIn(out.retval, out.error, out.warned, 1, 0, file)

\* The calls under failures are made for one service: the failures do not
\* depend on how many sections the file has.
FaultServices == {"svc"}

LoadIn ==
  /\ Load
  /\ io' = IoOf(FineEnvironment, 0, 0)
  /\ UNCHANGED callers

StoreIn ==
  \E env \in Environments, service \in FaultServices, account \in Accounts,
     password \in Passwords :
    LET out == store_sync_in(env, passwords_ini, service, account, password) IN
    /\ last.op # "start"
    /\ passwords_ini' = out.file
    /\ last' = Call("store", service, account, password, out)
    /\ io' = IoOf(env, out.loads, out.saves)
    /\ UNCHANGED callers

LookupIn ==
  \E env \in Environments, service \in FaultServices, account \in Accounts :
    LET out == lookup_sync_in(env, passwords_ini, service, account) IN
    /\ last.op # "start"
    /\ passwords_ini' = out.file
    /\ last' = Call("lookup", service, account, <<>>, out)
    /\ io' = IoOf(env, out.loads, out.saves)
    /\ UNCHANGED callers

ClearIn ==
  \E env \in Environments, service \in FaultServices, account \in Accounts :
    LET out == clear_sync_in(env, passwords_ini, service, account) IN
    /\ last.op # "start"
    /\ passwords_ini' = out.file
    /\ last' = Call("clear", service, account, <<>>, out)
    /\ io' = IoOf(env, out.loads, out.saves)
    /\ UNCHANGED callers

SearchIn ==
  \E env \in Environments, service \in FaultServices :
    LET out == search_sync_in(env, passwords_ini, service) IN
    /\ last.op # "start"
    /\ passwords_ini' = out.file
    /\ last' = Call("search", service, "", <<>>, out)
    /\ io' = IoOf(env, out.loads, out.saves)
    /\ UNCHANGED callers

NextFault == LoadIn \/ StoreIn \/ LookupIn \/ ClearIn \/ SearchIn

SpecFault == Init /\ [][NextFault]_vars

\* ------------------------------------------------- two callers at once

\* The calls the callers make together.
MaxCalls == 2

TotalCalls == callers["c1"].calls + callers["c2"].calls

\* The files the callers start on: the one the constructor creates, and one
\* that an earlier store has put an entry in.
InitialFiles ==
  { EmptyFile,
    secret_password_store_sync(EmptyFile, "svc", "alice", PasswordPool[1]).file }

InitConc ==
  /\ passwords_ini \in InitialFiles
  /\ last = [op |-> "init", service |-> "", account |-> "", password |-> <<>>,
             retval |-> FALSE, error |-> NoError, warned |-> FALSE,
             saved |-> FALSE, before |-> NoFile, repeat |-> FALSE]
  /\ io = IoOf(FineEnvironment, 0, 0)
  /\ callers = [c \in Callers |-> Idle]

\* What a call of `op` computes from the file it has loaded.
Update(op, file, service, account, password) ==
  IF op = "store"
  THEN secret_password_store_sync(file, service, account, password)
  ELSE secret_password_clear_sync(file, service, account)

\* Faulty variant: the save writes into the file itself.
written_in_place(file, tmp) == [exists |-> TRUE, data |-> tmp]

\* The file others see while a save has written `tmp` so far: the save
\* (g_file_set_contents) writes a temporary file of its own.
visible_while_saving(file, tmp) == file

\* Faulty variant: the rename does not replace a file that is there.
rename_keeps_existing(file, target) == IF file.exists THEN file ELSE target

\* The file after the save's rename of the complete temporary file.
file_after_rename(file, target) == target

\* A caller enters store or clear, loads the file and changes the key file
\* in memory; a call that fails here returns.  No lock is taken.
LoadModify ==
  \E c \in Callers, op \in {"store", "clear"}, account \in Accounts,
     password \in Passwords :
    LET out == Update(op, passwords_ini, "svc", account, password) IN
    /\ callers[c].pc \in {"idle", "done"}
    /\ TotalCalls < MaxCalls
    /\ op = "clear" => password = PasswordPool[1]
    /\ callers' = [callers EXCEPT ![c] =
         [pc       |-> IF out.saved THEN "save" ELSE "done",
          op       |-> op,
          service  |-> "svc",
          account  |-> account,
          password |-> IF op = "store" THEN password ELSE <<>>,
          snapshot |-> passwords_ini,
          target   |-> IF out.saved THEN out.file ELSE NoFile,
          tmp      |-> <<>>,
          retval   |-> FALSE,
          error    |-> out.error,
          latest   |-> FALSE,
          calls    |-> callers[c].calls + 1]]
    /\ UNCHANGED <<passwords_ini, last, io>>

\* The save writes the next line of the new content.
WriteStep ==
  \E c \in Callers :
    /\ callers[c].pc = "save"
    /\ Len(callers[c].tmp) < Len(callers[c].target.data)
    /\ LET tmp == Append(callers[c].tmp,
                         callers[c].target.data[Len(callers[c].tmp) + 1]) IN
       /\ callers' = [callers EXCEPT ![c].tmp = tmp]
       /\ passwords_ini' = visible_while_saving(passwords_ini, tmp)
    /\ UNCHANGED <<last, io>>

\* The save is complete: the temporary file takes the file's place and the
\* call returns TRUE.
RenameStep ==
  \E c \in Callers :
    /\ callers[c].pc = "save"
    /\ callers[c].tmp = callers[c].target.data
    /\ passwords_ini' = file_after_rename(passwords_ini, callers[c].target)
    /\ callers' = [d \in Callers |->
         IF d = c
         THEN [callers[d] EXCEPT !.pc = "done", !.retval = TRUE, !.latest = TRUE]
         ELSE [callers[d] EXCEPT !.latest = FALSE]]
    /\ UNCHANGED <<last, io>>

\* The save fails or is interrupted at any point: the call returns FALSE.
FailStep ==
  \E c \in Callers :
    /\ callers[c].pc = "save"
    /\ passwords_ini' = failed_save_leaves(passwords_ini)
    /\ callers' = [callers EXCEPT ![c].pc = "done", ![c].retval = FALSE,
                                  ![c].error = G_FILE_ERROR_NOSPC]
    /\ UNCHANGED <<last, io>>

NextConc == LoadModify \/ WriteStep \/ RenameStep \/ FailStep

SpecConc == InitConc /\ [][NextConc]_vars

\* ------------------------------------------------------------ observers

\* The result kinds of the contract.  NotFound: the call fails and *error is
\* one of the key file's not-found codes (the key, or its group, is absent).
NotFoundErrors == {G_KEY_FILE_ERROR_KEY_NOT_FOUND, G_KEY_FILE_ERROR_GROUP_NOT_FOUND}

\* Read off the file's text: the section a line stands in ("" before the
\* first header), and the secrets whose escaped form a "account=..." line of
\* section `service` holds.
SectionAt(data, i) ==
  LET headers == {h \in 1..i : data[h].kind = "group"}
  IN  IF headers = {} THEN ""
      ELSE data[CHOOSE h \in headers : \A g \in headers : g <= h].name

HasSection(file, service) ==
  \E i \in 1..Len(file.data) :
    file.data[i].kind = "group" /\ file.data[i].name = service

StoredSecrets(file, service, account) ==
  {v \in Passwords :
     \E i \in 1..Len(file.data) :
       /\ file.data[i].kind = "pair"
       /\ file.data[i].name = account
       /\ SectionAt(file.data, i) = service
       /\ file.data[i].value = escape_from(v, 1, TRUE)}

IsStored(file, service, account) == StoredSecrets(file, service, account) # {}

\* What a lookup called on `file` gives the caller.
Found(file, service, account) ==
  LET out == secret_password_lookup_sync(file, service, account)
  IN  [retval |-> out.retval, error |-> out.error]

\* ---------------------------------------------------------------- claims

\* C1: a store(s, a, v) that returns TRUE leaves a file on which lookup(s, a),
\* called next, returns exactly v and no error.
C1_RoundTrip ==
  (last.op = "store" /\ last.retval = TRUE)
    => Found(passwords_ini, last.service, last.account)
         = [retval |-> last.password, error |-> NoError]

\* A store of the secret that needs escaping has succeeded.
C1_Witness ==
  /\ last.op = "store"
  /\ last.retval = TRUE
  /\ last.password = <<" ", "\\">>

\* C2: a store called when the file does not exist returns TRUE and leaves a
\* file holding exactly the one entry (s, a) -> v.
C2_StoreOnAbsentFile ==
  (last.op = "store" /\ ~last.before.exists)
    => /\ last.retval = TRUE
       /\ passwords_ini.exists
       /\ \A s \in Services, a \in Accounts :
            StoredSecrets(passwords_ini, s, a) =
              IF s = last.service /\ a = last.account THEN {last.password} ELSE {}

\* C3: a lookup called when the file does not exist returns NotFound, not
\* an error.
C3_LookupOnAbsentFile ==
  (last.op = "lookup" /\ ~last.before.exists)
    => /\ last.retval = NULL
       /\ last.error \in NotFoundErrors

\* C4: on an existing file, lookup(s, a) returns the stored secret when
\* (s, a) is stored and NotFound otherwise, whether section s is there
\* without the account or is not there at all.
C4_LookupOnExistingFile ==
  (last.op = "lookup" /\ last.before.exists)
    => IF IsStored(last.before, last.service, last.account)
       THEN /\ last.retval \in StoredSecrets(last.before, last.service, last.account)
            /\ last.error = NoError
       ELSE /\ last.retval = NULL
            /\ last.error = IF HasSection(last.before, last.service)
                            THEN G_KEY_FILE_ERROR_KEY_NOT_FOUND
                            ELSE G_KEY_FILE_ERROR_GROUP_NOT_FOUND
            /\ last.error \in NotFoundErrors

\* A lookup in a file that holds entries, none in a section of the service.
C4_Witness ==
  /\ last.op = "lookup"
  /\ last.before.exists
  /\ last.before.data # <<>>
  /\ ~HasSection(last.before, last.service)
  /\ last.retval = NULL

\* C5: clear(s, a) of a stored (s, a) returns TRUE; afterwards lookup(s, a)
\* returns NotFound and every other account of s maps to the secret it had.
C5_ClearRemovesOneKey ==
  (last.op = "clear" /\ IsStored(last.before, last.service, last.account))
    => /\ last.retval = TRUE
       /\ Found(passwords_ini, last.service, last.account).retval = NULL
       /\ Found(passwords_ini, last.service, last.account).error \in NotFoundErrors
       /\ \A a2 \in Accounts \ {last.account} :
            /\ Found(passwords_ini, last.service, a2)
                 = Found(last.before, last.service, a2)
            /\ StoredSecrets(passwords_ini, last.service, a2)
                 = StoredSecrets(last.before, last.service, a2)

\* A clear has removed a key whose service keeps another account.
C5_Witness ==
  /\ last.op = "clear"
  /\ last.retval = TRUE
  /\ \E a2 \in Accounts \ {last.account} :
       IsStored(passwords_ini, last.service, a2)

\* C6: clear(s, a) on an existing file without an entry for (s, a) returns
\* NotFound and does not save: the file is not rewritten.
C6_ClearMissingKey ==
  (last.op = "clear" /\ last.before.exists
     /\ ~IsStored(last.before, last.service, last.account))
    => /\ last.retval = FALSE
       /\ last.error \in NotFoundErrors
       /\ ~last.saved
       /\ passwords_ini = last.before

\* A clear of an absent account in a section that holds another one.
C6_Witness ==
  /\ last.op = "clear"
  /\ last.before.exists
  /\ ~IsStored(last.before, last.service, last.account)
  /\ HasSection(last.before, last.service)
  /\ \E a2 \in Accounts : IsStored(last.before, last.service, a2)

\* C7: on an existing file search(s) returns, without error and each once,
\* exactly the (account, secret) pairs stored under s.
C7_SearchComplete ==
  (last.op = "search" /\ last.before.exists)
    => /\ last.error = NoError
       /\ {last.retval[i] : i \in 1..Len(last.retval)}
            = {[account |-> a, password |-> v] :
                 <<a, v>> \in {av \in Accounts \X Passwords :
                                 av[2] \in StoredSecrets(last.before, last.service, av[1])}}
       /\ \A i, j \in 1..Len(last.retval) :
            last.retval[i].account = last.retval[j].account => i = j

\* A search that returned two entries while the other service holds one.
C7_Witness ==
  /\ last.op = "search"
  /\ Len(last.retval) = 2
  /\ \E s \in Services \ {last.service}, a \in Accounts :
       IsStored(last.before, s, a)

\* C8: a store or clear of (s, a) leaves every other entry (s', a') mapped to
\* the secret it had, and adds none.
C8_OtherEntriesKept ==
  (last.op \in {"store", "clear"})
    => \A s \in Services, a \in Accounts :
         (<<s, a>> # <<last.service, last.account>>)
           => /\ StoredSecrets(passwords_ini, s, a) = StoredSecrets(last.before, s, a)
              /\ Found(passwords_ini, s, a).retval = Found(last.before, s, a).retval

\* A store has rewritten a file in which another service holds an entry.
C8_Witness ==
  /\ last.op = "store"
  /\ last.retval = TRUE
  /\ \E s \in Services \ {last.service}, a \in Accounts :
       IsStored(last.before, s, a)
  /\ passwords_ini # last.before

\* C9: a store(s, a, v) that repeats the call before it leaves the file as
\* that call left it.
C9_StoreIdempotent ==
  (last.op = "store" /\ last.repeat) => passwords_ini = last.before

\* The same store has been called twice in a row, and succeeded, on a file
\* that holds more than its entry.
C9_Witness ==
  /\ last.op = "store"
  /\ last.repeat
  /\ last.retval = TRUE
  /\ Len(passwords_ini.data) > 2

\* C10: a clear called when the file does not exist fails with an error that
\* is not a not-found code, and leaves the file absent.
C10_ClearOnAbsentFile ==
  (last.op = "clear" /\ ~last.before.exists)
    => /\ last.retval = FALSE
       /\ last.error # NoError
       /\ last.error \notin NotFoundErrors
       /\ ~last.saved
       /\ ~passwords_ini.exists

\* A clear has been called with no file there.
C10_Witness ==
  /\ last.op = "clear"
  /\ ~last.before.exists
  /\ last.error = G_FILE_ERROR_NOENT

\* C11: on an existing file, search(s) of a service without entries, its
\* section never written or left empty by clears, returns the empty list and
\* no error.
C11_SearchNoEntries ==
  (last.op = "search" /\ last.before.exists
     /\ \A a \in Accounts : ~IsStored(last.before, last.service, a))
    => /\ last.retval = <<>>
       /\ last.error = NoError

\* A search of a service whose section is there and holds no key.
C11_Witness ==
  /\ last.op = "search"
  /\ HasSection(last.before, last.service)
  /\ \A a \in Accounts : ~IsStored(last.before, last.service, a)
  /\ last.retval = <<>>

\* C16: a search called when the file does not exist returns the empty list
\* and no error.
C16_SearchOnAbsentFile ==
  (last.op = "search" /\ ~last.before.exists)
    => /\ last.retval = <<>>
       /\ last.error = NoError

\* The lines of `file` that hold account `account` in section `service`.
EntryLines(file, service, account) ==
  {i \in 1..Len(file.data) :
     /\ file.data[i].kind = "pair"
     /\ file.data[i].name = account
     /\ SectionAt(file.data, i) = service}

\* C19: the file holds each section once and each account of a section once;
\* a successful store(s, a, v) leaves v as the one secret of (s, a), and a
\* search returns no account twice.
C19_KeysUnique ==
  /\ \A s \in Services :
       Cardinality({i \in 1..Len(passwords_ini.data) :
                      /\ passwords_ini.data[i].kind = "group"
                      /\ passwords_ini.data[i].name = s}) <= 1
  /\ \A s \in Services, a \in Accounts :
       /\ Cardinality(EntryLines(passwords_ini, s, a)) <= 1
       /\ Cardinality(StoredSecrets(passwords_ini, s, a)) <= 1
  /\ (last.op = "store" /\ last.retval = TRUE)
       => /\ StoredSecrets(passwords_ini, last.service, last.account) = {last.password}
          /\ Cardinality(EntryLines(passwords_ini, last.service, last.account)) = 1
  /\ (last.op = "search")
       => \A i, j \in 1..Len(last.retval) :
            last.retval[i].account = last.retval[j].account => i = j

\* A store has replaced the secret that (s, a) held by another one.
C19_Witness ==
  /\ last.op = "store"
  /\ last.retval = TRUE
  /\ IsStored(last.before, last.service, last.account)
  /\ last.password \notin StoredSecrets(last.before, last.service, last.account)

\* C20: the constructor leaves a file that exists as it is, with every entry,
\* and leaves an empty file where there was none and g_open could create it.
C20_InitKeepsEntries ==
  (last.op = "init")
    => /\ last.before.exists => passwords_ini = last.before
       /\ ~last.before.exists
            => passwords_ini = IF last.retval = TRUE THEN EmptyFile ELSE NoFile
       /\ \A s \in Services, a \in Accounts :
            StoredSecrets(passwords_ini, s, a) = StoredSecrets(last.before, s, a)

\* The constructor has run twice in a row on a file that holds entries.
C20_Witness ==
  /\ last.op = "init"
  /\ last.repeat
  /\ \E s \in Services, a \in Accounts : IsStored(last.before, s, a)

\* C14: a store or a clear that does not return TRUE (HOME unset, load failed,
\* file not parsed, save failed) leaves the file as it was before the call.
C14_NoPartialState ==
  (last.op \in {"store", "clear"} /\ last.retval = FALSE)
    => passwords_ini = last.before

\* A store on a file that has entries has failed in its save.
C14_Witness ==
  /\ last.op = "store"
  /\ last.retval = FALSE
  /\ last.error = G_FILE_ERROR_NOSPC
  /\ io.saves = 1
  /\ IsStored(last.before, "svc", "alice")
  /\ ~IsStored(last.before, last.service, last.account)

\* C15: without HOME each of store, lookup, clear and search returns the
\* error of get_ini_location and has called neither the load nor the save.
C15_HomeUnsetIsFatal ==
  (last.op \in {"store", "lookup", "clear", "search"} /\ ~io.home)
    => /\ last.error = MOCKLIBSECRET_ERROR
       /\ io.loads = 0
       /\ io.saves = 0

\* C17: a lookup or a search, whatever it returns, calls no save and leaves
\* the file, there or not, as it was before the call.
C17_ReadOnly ==
  (last.op \in {"lookup", "search"})
    => /\ passwords_ini = last.before
       /\ io.saves = 0

\* A lookup has ended in an error on a file that has entries.
C17_Witness ==
  /\ last.op = "lookup"
  /\ last.error = G_KEY_FILE_ERROR_PARSE
  /\ IsStored(last.before, "svc", "alice")

\* The load of the last call failed: the file could not be opened or
\* parsed, or was not there.
LoadFailedWith ==
  IF io.load_error = G_FILE_ERROR_ACCES THEN G_FILE_ERROR_ACCES
  ELSE IF ~last.before.exists THEN G_FILE_ERROR_NOENT
  ELSE io.load_error

\* C18: a store or a clear returns TRUE only after one save that succeeded and
\* left the mutated content in the file; a load or a save that failed makes
\* the call return FALSE with that failure's error; neither is called twice.
C18_SuccessIsCommitted ==
  (last.op \in {"store", "clear"})
    => /\ io.loads <= 1
       /\ io.saves <= 1
       /\ last.retval = TRUE
            => /\ io.saves = 1
               /\ io.save_error = NoError
               /\ last.op = "store"
                    => StoredSecrets(passwords_ini, last.service, last.account)
                         = {last.password}
               /\ last.op = "clear"
                    => ~IsStored(passwords_ini, last.service, last.account)
       /\ (io.home /\ io.loads = 1 /\ LoadFailedWith # NoError)
            => /\ last.retval = FALSE
               /\ last.error = LoadFailedWith
               /\ io.saves = 0
       /\ (io.saves = 1 /\ io.save_error # NoError)
            => /\ last.retval = FALSE
               /\ last.error = io.save_error

\* A clear of an entry that is there has failed in its save.
C18_Witness ==
  /\ last.op = "clear"
  /\ IsStored(last.before, last.service, last.account)
  /\ io.saves = 1
  /\ io.save_error = G_FILE_ERROR_NOSPC
  /\ last.retval = FALSE

\* C12: whenever a caller's store or clear was the last to complete its
\* save, the file is exactly what that call computed from the file it had
\* loaded: what another caller saved in between is not in it.
C12_LastWriterWins ==
  \A c \in Callers :
    (callers[c].pc = "done" /\ callers[c].latest)
      => /\ callers[c].retval = TRUE
         /\ passwords_ini = Update(callers[c].op, callers[c].snapshot,
                                   callers[c].service, callers[c].account,
                                   callers[c].password).file

\* Both callers' stores, begun on the same file, have returned TRUE, and the
\* entry of the one that saved first is not in the file.
C12_Witness ==
  /\ \A c \in Callers :
       /\ callers[c].pc = "done"
       /\ callers[c].op = "store"
       /\ callers[c].retval = TRUE
  /\ callers["c1"].snapshot = callers["c2"].snapshot
  /\ callers["c1"].account # callers["c2"].account
  /\ callers["c2"].latest
  /\ ~IsStored(passwords_ini, "svc", callers["c1"].account)
  /\ IsStored(passwords_ini, "svc", callers["c2"].account)

====
